---------------------------- MODULE Spec2Model ----------------------------
(***************************************************************************)
(* Model of the Swift Academy Agent chat relay.                            *)
(*                                                                         *)
(*   src/src/api/models.py    request / response schemas                    *)
(*   src/src/api/routes.py    POST /chat handler                            *)
(*   src/src/agent/service.py message shaping and the provider call         *)
(*                                                                         *)
(* Text is modelled as a sequence of one-character strings, so that        *)
(* len(), slicing and concatenation are Len, SubSeq and \o.  Python dicts  *)
(* are objects on a heap: a list of messages is a sequence of heap         *)
(* addresses, so that aliasing between the caller's list and the clipped   *)
(* list is visible.                                                        *)
(***************************************************************************)
EXTENDS Integers, Sequences, FiniteSets, TLC

(***************************************************************************)
(* Bounds of the explored input space.                                     *)
(***************************************************************************)
MaxMsgs == 13      \* longest conversation a client sends
MaxOver == 2       \* how far a long content exceeds MAX_CONTENT_CHARS
MaxCtx == 2        \* most entries in a context mapping
MaxChoices == 2    \* most choices in a provider response

(***************************************************************************)
(* Program constants, src/src/agent/service.py.                            *)
(***************************************************************************)
MAX_TURNS == 12
MAX_CONTENT_CHARS == 4000

(***************************************************************************)
(* Text literals of the program.                                           *)
(***************************************************************************)
\* SOCRATIC_SYSTEM after .strip(); the em dash of the first line is written
\* "-" because the module is ASCII.
SOCRATIC_SYSTEM ==
  <<
    "Y", "o", "u", " ", "a", "r", "e", " ", "t", "h", "e", " ", "C", "o", "d", "e", " ", "C", "o", "a",
    "c", "h", " ", "-", " ", "a", " ", "f", "r", "i", "e", "n", "d", "l", "y", ",", " ", "h", "e", "l",
    "p", "f", "u", "l", " ", "A", "I", " ", "m", "e", "n", "t", "o", "r", " ", "b", "u", "i", "l", "t",
    " ", "t", "o", " ", "t", "e", "a", "c", "h", " ", "c", "o", "m", "p", "u", "t", "e", "r", " ", "s",
    "c", "i", "e", "n", "c", "e", "\n", "w", "i", "t", "h", " ", "a", " ", "f", "o", "c", "u", "s", " ",
    "o", "n", " ", "S", "w", "i", "f", "t", ",", " ", "S", "w", "i", "f", "t", "U", "I", ",", " ", "a",
    "n", "d", " ", "i", "O", "S", " ", "d", "e", "v", "e", "l", "o", "p", "m", "e", "n", "t", " ", "u",
    "s", "i", "n", "g", " ", "X", "c", "o", "d", "e", ".", " ", "M", "o", "s", "t", " ", "s", "t", "u",
    "d", "e", "n", "t", "s", " ", "y", "o", "u", " ", "s", "u", "p", "p", "o", "r", "t", "\n", "a", "r",
    "e", " ", "b", "e", "g", "i", "n", "n", "e", "r", "s", ":", " ", "h", "i", "g", "h", " ", "s", "c",
    "h", "o", "o", "l", "e", "r", "s", ",", " ", "e", "a", "r", "l", "y", " ", "c", "o", "l", "l", "e",
    "g", "e", " ", "s", "t", "u", "d", "e", "n", "t", "s", ",", " ", "o", "r", " ", "a", "n", "y", "o",
    "n", "e", " ", "n", "e", "w", " ", "t", "o", " ", "p", "r", "o", "g", "r", "a", "m", "m", "i", "n",
    "g", ".", "\n", "\n", "Y", "o", "u", "r", " ", "j", "o", "b", " ", "i", "s", " ", "t", "o", " ", "e",
    "x", "p", "l", "a", "i", "n", " ", "c", "o", "d", "i", "n", "g", " ", "c", "o", "n", "c", "e", "p",
    "t", "s", " ", "i", "n", " ", "a", " ", "s", "i", "m", "p", "l", "e", ",", " ", "b", "e", "g", "i",
    "n", "n", "e", "r", "-", "f", "r", "i", "e", "n", "d", "l", "y", " ", "w", "a", "y", ".", " ", "A",
    "l", "w", "a", "y", "s", " ", "u", "s", "e", " ", "p", "l", "a", "i", "n", " ", "t", "e", "x", "t",
    "\n", "o", "n", "l", "y", " ", "-", " ", "n", "o", " ", "m", "a", "r", "k", "d", "o", "w", "n", " ",
    "f", "o", "r", "m", "a", "t", "t", "i", "n", "g", " ", "(", "n", "o", " ", "a", "s", "t", "e", "r",
    "i", "s", "k", "s", " ", "f", "o", "r", " ", "b", "o", "l", "d", ",", " ", "n", "o", " ", "t", "r",
    "i", "p", "l", "e", " ", "b", "a", "c", "k", "t", "i", "c", "k", "s", " ", "f", "o", "r", " ", "c",
    "o", "d", "e", " ", "b", "l", "o", "c", "k", "s", ",", " ", "e", "t", "c", ".", ")", ".", "\n", "\n",
    "K", "e", "e", "p", " ", "y", "o", "u", "r", " ", "a", "n", "s", "w", "e", "r", "s", " ", "s", "h",
    "o", "r", "t", ",", " ", "c", "l", "e", "a", "r", ",", " ", "a", "n", "d", " ", "f", "o", "c", "u",
    "s", "e", "d", " ", "o", "n", " ", "t", "h", "e", " ", "q", "u", "e", "s", "t", "i", "o", "n", " ",
    "b", "e", "i", "n", "g", " ", "a", "s", "k", "e", "d", ".", " ", "D", "o", "n", "'", "t", " ", "o",
    "v", "e", "r", "-", "e", "x", "p", "l", "a", "i", "n", " ", "o", "r", " ", "d", "r", "i", "f", "t",
    "\n", "o", "f", "f", "-", "t", "o", "p", "i", "c", ".", " ", "A", "v", "o", "i", "d", " ", "t", "e",
    "c", "h", "n", "i", "c", "a", "l", " ", "j", "a", "r", "g", "o", "n", " ", "u", "n", "l", "e", "s",
    "s", " ", "y", "o", "u", " ", "i", "m", "m", "e", "d", "i", "a", "t", "e", "l", "y", " ", "d", "e",
    "f", "i", "n", "e", " ", "i", "t", " ", "i", "n", " ", "s", "i", "m", "p", "l", "e", " ", "t", "e",
    "r", "m", "s", ".", " ", "U", "s", "e", " ", "r", "e", "a", "l", "-", "w", "o", "r", "l", "d", "\n",
    "c", "o", "m", "p", "a", "r", "i", "s", "o", "n", "s", ",", " ", "m", "e", "t", "a", "p", "h", "o",
    "r", "s", ",", " ", "o", "r", " ", "v", "i", "s", "u", "a", "l", " ", "d", "e", "s", "c", "r", "i",
    "p", "t", "i", "o", "n", "s", " ", "w", "h", "e", "n", " ", "t", "h", "e", "y", " ", "h", "e", "l",
    "p", ".", " ", "I", "n", "c", "l", "u", "d", "e", " ", "s", "m", "a", "l", "l", ",", " ", "i", "n",
    "l", "i", "n", "e", " ", "c", "o", "d", "e", " ", "e", "x", "a", "m", "p", "l", "e", "s", "\n", "i",
    "f", " ", "u", "s", "e", "f", "u", "l", " ", "-", " ", "m", "a", "k", "e", " ", "s", "u", "r", "e",
    " ", "t", "h", "e", "y", "'", "r", "e", " ", "e", "a", "s", "y", " ", "t", "o", " ", "r", "e", "a",
    "d", " ", "o", "n", " ", "a", " ", "p", "h", "o", "n", "e", " ", "s", "c", "r", "e", "e", "n", ".",
    "\n", "\n", "I", "f", " ", "t", "h", "e", " ", "q", "u", "e", "s", "t", "i", "o", "n", " ", "i", "s",
    " ", "b", "r", "o", "a", "d", " ", "o", "r", " ", "c", "o", "n", "n", "e", "c", "t", "s", " ", "t",
    "o", " ", "a", " ", "b", "i", "g", "g", "e", "r", " ", "t", "o", "p", "i", "c", ",", " ", "s", "t",
    "a", "y", " ", "c", "o", "n", "c", "i", "s", "e", " ", "b", "u", "t", " ", "f", "e", "e", "l", " ",
    "f", "r", "e", "e", " ", "t", "o", " ", "s", "u", "g", "g", "e", "s", "t", " ", "n", "e", "x", "t",
    "\n", "s", "t", "e", "p", "s", ",", " ", "e", ".", "g", ".", ",", " ", "Y", "o", "u", " ", "m", "i",
    "g", "h", "t", " ", "a", "l", "s", "o", " ", "w", "a", "n", "t", " ", "t", "o", " ", "l", "e", "a",
    "r", "n", " ", "a", "b", "o", "u", "t", " ", "_", "_", "_", ".", " ", "W", "a", "n", "t", " ", "m",
    "e", " ", "t", "o", " ", "e", "x", "p", "l", "a", "i", "n", " ", "t", "h", "a", "t", " ", "t", "o",
    "o", "?", "\n", "\n", "M", "a", "i", "n", "t", "a", "i", "n", " ", "a", " ", "w", "a", "r", "m", ",",
    " ", "e", "n", "c", "o", "u", "r", "a", "g", "i", "n", "g", " ", "t", "o", "n", "e", " ", "-", " ",
    "l", "i", "k", "e", " ", "a", " ", "p", "a", "t", "i", "e", "n", "t", " ", "m", "e", "n", "t", "o",
    "r", " ", "w", "h", "o", " ", "w", "a", "n", "t", "s", " ", "s", "t", "u", "d", "e", "n", "t", "s",
    " ", "t", "o", " ", "f", "e", "e", "l", " ", "c", "o", "n", "f", "i", "d", "e", "n", "t", " ", "a",
    "n", "d", "\n", "t", "r", "u", "l", "y", " ", "u", "n", "d", "e", "r", "s", "t", "a", "n", "d", " ",
    "t", "h", "e", " ", "m", "a", "t", "e", "r", "i", "a", "l", "."
  >>

\* The fixed reply of get_response's except branch.
FALLBACK ==
  <<
    "I", "'", "m", " ", "h", "a", "v", "i", "n", "g", " ", "t", "r", "o", "u", "b", "l", "e", " ", "r",
    "e", "s", "p", "o", "n", "d", "i", "n", "g", " ", "r", "i", "g", "h", "t", " ", "n", "o", "w", ".",
    " ", "P", "l", "e", "a", "s", "e", " ", "t", "r", "y", " ", "a", "g", "a", "i", "n", " ", "i", "n",
    " ", "a", " ", "m", "o", "m", "e", "n", "t", "."
  >>

CONTEXT_PREFIX == <<"\n", "C", "o", "n", "t", "e", "x", "t", ":", " ">>
COMMA_SEP == <<",", " ">>
COLON_SEP == <<":", " ">>
TXT_lesson == <<"l", "e", "s", "s", "o", "n">>
TXT_topic == <<"t", "o", "p", "i", "c">>
TXT_level == <<"l", "e", "v", "e", "l">>
TXT_Variables == <<"V", "a", "r", "i", "a", "b", "l", "e", "s">>
TXT_True == <<"T", "r", "u", "e">>
TXT_False == <<"F", "a", "l", "s", "e">>
TXT_None == <<"N", "o", "n", "e">>
TXT_mocked_reply == <<"m", "o", "c", "k", "e", "d", " ", "r", "e", "p", "l", "y">>
TXT_u1 == <<"u", "1">>

(***************************************************************************)
(* Python values and built-ins used by the program.                        *)
(***************************************************************************)
Digits == <<"0", "1", "2", "3", "4", "5", "6", "7", "8", "9">>

\* str(n) for a non-negative int
RECURSIVE NatToStr(_)
NatToStr(n) ==
  IF n < 10 THEN <<Digits[n + 1]>>
  ELSE NatToStr(n \div 10) \o <<Digits[(n % 10) + 1]>>

\* A value of a context mapping (dict[str, Any] decoded from JSON):
\* t is the Python type, and the field of that type carries the value.
PyStrVal(s) == [t |-> "str", s |-> s, n |-> 0, b |-> FALSE]
PyIntVal(n) == [t |-> "int", s |-> <<>>, n |-> n, b |-> FALSE]
PyBoolVal(b) == [t |-> "bool", s |-> <<>>, n |-> 0, b |-> b]
PyNone == [t |-> "none", s |-> <<>>, n |-> 0, b |-> FALSE]

\* bool(v): the truth test of "if v"
Truthy(v) ==
  CASE v.t = "str" -> Len(v.s) > 0
    [] v.t = "int" -> v.n # 0
    [] v.t = "bool" -> v.b
    [] v.t = "none" -> FALSE

\* str(v), as the f-string "{v}" formats it
PyStr(v) ==
  CASE v.t = "str" -> v.s
    [] v.t = "int" -> IF v.n < 0 THEN <<"-">> \o NatToStr(0 - v.n) ELSE NatToStr(v.n)
    [] v.t = "bool" -> IF v.b THEN TXT_True ELSE TXT_False
    [] v.t = "none" -> TXT_None

\* sep.join(parts)
RECURSIVE Join(_, _)
Join(sep, parts) ==
  IF Len(parts) = 0 THEN <<>>
  ELSE IF Len(parts) = 1 THEN parts[1]
  ELSE parts[1] \o sep \o Join(sep, Tail(parts))

\* mutant of TruthyPairs: the "if v" filter of the comprehension is missing
RECURSIVE TruthyPairs_unfiltered(_)
TruthyPairs_unfiltered(items) ==
  IF Len(items) = 0 THEN <<>>
  ELSE <<items[1].k \o COLON_SEP \o PyStr(items[1].v)>> \o TruthyPairs_unfiltered(Tail(items))

\* [f(x) for x in s if p(x)] over the items of a context, in iteration order
RECURSIVE TruthyPairs(_)
TruthyPairs(items) ==
  IF Len(items) = 0 THEN <<>>
  ELSE IF Truthy(items[1].v)
       THEN <<items[1].k \o COLON_SEP \o PyStr(items[1].v)>> \o TruthyPairs(Tail(items))
       ELSE TruthyPairs(Tail(items))

\* s[-k:] for k > 0
LastK(s, k) == IF Len(s) > k THEN SubSeq(s, Len(s) - k + 1, Len(s)) ELSE s

\* s[:k]
FirstK(s, k) == IF Len(s) > k THEN SubSeq(s, 1, k) ELSE s

Range(s) == {s[i] : i \in DOMAIN s}

(***************************************************************************)
(* Message shaping, src/src/agent/service.py.                              *)
(*                                                                         *)
(* h is the heap (a sequence of dicts, address = index); messages is a     *)
(* list of addresses.  Each function returns the heap it leaves and the    *)
(* list it returns.                                                        *)
(***************************************************************************)
\* mutant of ClipTail: messages[:MAX_TURNS], the first turns instead of the last
ClipTail_first(messages) == FirstK(messages, MAX_TURNS)

\* line 64: tail = messages[-MAX_TURNS:]
ClipTail(messages) == LastK(messages, MAX_TURNS)

\* mutant of ClipContent: content[-MAX_CONTENT_CHARS:], the end of the text
ClipContent_last(content) ==
  IF Len(content) > MAX_CONTENT_CHARS THEN LastK(content, MAX_CONTENT_CHARS)
  ELSE content

\* lines 66-68: the content left in one dict of the tail
ClipContent(content) ==
  IF Len(content) > MAX_CONTENT_CHARS THEN FirstK(content, MAX_CONTENT_CHARS)
  ELSE content

\* _clip_messages: the slice is a new list of the same dicts, and the loop
\* assigns m["content"] in those dicts.
_clip_messages(h, messages) ==
  LET tail == ClipTail(messages)
      h2 == [a \in DOMAIN h |->
               IF a \in Range(tail)
               THEN [h[a] EXCEPT !.content = ClipContent(@)]
               ELSE h[a]]
  IN [heap |-> h2, ret |-> tail]

\* lines 80-84: the content of the injected system message
SystemContent(context) ==
  IF context.present /\ Len(context.items) > 0
  THEN LET ctx_str == Join(COMMA_SEP, TruthyPairs(context.items))
       IN IF Len(ctx_str) > 0
          THEN SOCRATIC_SYSTEM \o CONTEXT_PREFIX \o ctx_str
          ELSE SOCRATIC_SYSTEM
  ELSE SOCRATIC_SYSTEM

\* mutant of _ensure_system: the injected message replaces a client system
\* message instead of preceding it
_ensure_system_replace(h, messages, context) ==
  LET system == SystemContent(context)
      h2 == Append(h, [role |-> "system", content |-> system])
      injected == Len(h2)
  IN IF Len(messages) = 0 \/ h[messages[1]].role # "system"
     THEN [heap |-> h2, ret |-> <<injected>> \o messages]
     ELSE [heap |-> h2, ret |-> <<injected>> \o Tail(messages)]

\* mutant of _ensure_system: nothing is injected when the client already
\* sent a system message
_ensure_system_skip(h, messages, context) ==
  LET system == SystemContent(context)
      h2 == Append(h, [role |-> "system", content |-> system])
      injected == Len(h2)
  IN IF Len(messages) = 0 \/ h[messages[1]].role # "system"
     THEN [heap |-> h2, ret |-> <<injected>> \o messages]
     ELSE [heap |-> h, ret |-> messages]

\* _ensure_system: a new dict in front of the given list, in both branches
_ensure_system(h, messages, context) ==
  LET system == SystemContent(context)
      h2 == Append(h, [role |-> "system", content |-> system])
      injected == Len(h2)
  IN IF Len(messages) = 0 \/ h[messages[1]].role # "system"
     THEN [heap |-> h2, ret |-> <<injected>> \o messages]
     ELSE [heap |-> h2, ret |-> <<injected>> \o messages]

\* get_response lines 131-132
Shape(h, messages, context) ==
  LET c == _clip_messages(h, messages)
  IN _ensure_system(c.heap, c.ret, context)

(***************************************************************************)
(* The provider call and the rest of get_response.                         *)
(*                                                                         *)
(* A provider response either raises or is an object with a list of        *)
(* choices, each carrying message.content (a str or None).                 *)
(***************************************************************************)
\* mutant of IssueCall: the call is made twice
IssueCall_twice(cs, shaped) == Append(Append(cs, shaped), shaped)

\* line 135: one call of client.chat.completions.create with the shaped list
IssueCall(cs, shaped) == Append(cs, shaped)

\* lines 135-142 raise: create() raised, or choices[0] is an IndexError
ProviderFails(resp) == resp.raises \/ Len(resp.choices) = 0

\* mutant of OnProviderError: the except branch re-raises
OnProviderError_reraise == [raised |-> TRUE, text |-> FALLBACK]

\* lines 144-147: the except branch returns the fallback and raises nothing
OnProviderError == [raised |-> FALSE, text |-> FALLBACK]

\* mutant of OnProviderReply: choices[-1] instead of choices[0]
OnProviderReply_last(resp) ==
  LET content == resp.choices[Len(resp.choices)]
  IN [raised |-> FALSE, text |-> IF Truthy(content) THEN content.s ELSE <<>>]

\* line 142: response.choices[0].message.content or ""
OnProviderReply(resp) ==
  LET content == resp.choices[1]
  IN [raised |-> FALSE, text |-> IF Truthy(content) THEN content.s ELSE <<>>]

\* what get_response hands back to its caller once the provider has answered
get_response_return(resp) ==
  IF ProviderFails(resp) THEN OnProviderError ELSE OnProviderReply(resp)

(***************************************************************************)
(* The endpoint, src/src/api/models.py and src/src/api/routes.py.          *)
(***************************************************************************)
\* Message: role and content are required and must be str
ValidMessage(m) == m.role.t = "str" /\ m.content.t = "str"

\* ChatRequest.messages: every element must validate as a Message
ValidRequest(req) == \A i \in DOMAIN req.messages : ValidMessage(req.messages[i])

\* line 27: messages_dict, one new dict per validated message
messages_dict(req) ==
  [i \in DOMAIN req.messages |->
     [role |-> req.messages[i].role.v, content |-> req.messages[i].content.s]]

NoResponse == [status |-> 0, role |-> "", content |-> <<>>]

\* the framework's answer to a body that fails validation
ValidationError == [status |-> 422, role |-> "", content |-> <<>>]

\* lines 37-49: ChatResponse on return, HTTPException(500) on an exception
ChatResult(r) ==
  IF r.raised
  THEN [status |-> 500, role |-> "", content |-> <<>>]
  ELSE [status |-> 200, role |-> "assistant", content |-> r.text]

(***************************************************************************)
(* Inputs.                                                                 *)
(***************************************************************************)
Alphabet == <<"x", "y", "z">>

\* a text of the given length whose characters vary with their position
Body(seed, len) ==
  IF len = 0 THEN <<>>
  ELSE [j \in 1..len |-> Alphabet[((seed + j + (j \div 7)) % 3) + 1]]

JStr(s) == [t |-> "str", v |-> s]
JNull == [t |-> "null", v |-> ""]

Roles == {"system", "user", "assistant"}
RawRoles == {JStr(r) : r \in Roles \cup {"tool"}} \cup {JNull}

ContentLens == {1} \cup (MAX_CONTENT_CHARS .. MAX_CONTENT_CHARS + MaxOver)
LastLens == {2, MAX_CONTENT_CHARS + 1}

AltRole(i) == IF i % 2 = 0 THEN "user" ELSE "assistant"

\* a conversation of n turns: the first has role r1 and length l1, the last
\* has length ll, the turns between are short
Conv(n, r1, l1, ll) ==
  [i \in 1..n |->
     [role |-> IF i = 1 THEN r1 ELSE JStr(AltRole(i)),
      content |-> PyStrVal(Body(i, IF i = 1 THEN l1 ELSE IF i = n THEN ll ELSE i % 3))]]

\* a short conversation whose turn p is replaced by the raw message m
ConvWith(n, p, m) ==
  [i \in 1..n |->
     IF i = p THEN m
     ELSE [role |-> JStr(AltRole(i)), content |-> PyStrVal(Body(i, i % 3))]]

OddMessages ==
  { [role |-> JStr("tool"), content |-> PyStrVal(Body(0, 2))],
    [role |-> JNull, content |-> PyStrVal(Body(0, 2))],
    [role |-> JStr("user"), content |-> PyNone] }

Conversations ==
  { Conv(n, r1, l1, ll) : n \in 0..MaxMsgs, r1 \in RawRoles,
                          l1 \in ContentLens, ll \in LastLens }

OddConversations ==
  UNION { { ConvWith(n, p, m) : p \in 1..n, m \in OddMessages } : n \in 1..MaxMsgs }

Keys == <<TXT_lesson, TXT_topic, TXT_level>>

Values ==
  { PyStrVal(<<>>), PyStrVal(TXT_Variables), PyIntVal(0), PyIntVal(12),
    PyBoolVal(TRUE), PyNone }

\* dicts of at most MaxCtx entries, as the sequence of their items in
\* iteration order (keys are distinct)
ItemSeqs ==
  UNION { { s \in [1..n -> [k : Range(Keys), v : Values]] :
              \A i, j \in 1..n : i # j => s[i].k # s[j].k } : n \in 0..MaxCtx }

NoContext == [present |-> FALSE, items |-> <<>>]
Contexts == {NoContext} \cup { [present |-> TRUE, items |-> s] : s \in ItemSeqs }

SampleContexts ==
  { NoContext,
    [present |-> TRUE, items |-> <<[k |-> TXT_lesson, v |-> PyStrVal(TXT_Variables)]>>] }

UserIds == {PyNone, PyStrVal(TXT_u1)}

Requests ==
  { [messages |-> c, user_id |-> PyNone, context |-> x] :
      c \in Conversations \cup OddConversations, x \in SampleContexts }
  \cup
  { [messages |-> Conv(2, JStr(r1), 1, 2), user_id |-> u, context |-> x] :
      r1 \in {"system", "user"}, u \in UserIds, x \in Contexts }

ProviderContents == {PyNone, PyStrVal(<<>>), PyStrVal(TXT_mocked_reply)}

Responses ==
  { [raises |-> TRUE, choices |-> <<>>] }
  \cup
  { [raises |-> FALSE, choices |-> cs] :
      cs \in UNION { [1..n -> ProviderContents] : n \in 0..MaxChoices } }

(***************************************************************************)
(* State.                                                                  *)
(***************************************************************************)
VARIABLES
  request,        \* the JSON body of the request being served
  pc,             \* "received", "rejected", "awaiting" or "responded"
  heap,           \* the dicts built while serving it
  messages,       \* get_response's argument: the caller's list of dicts
  msgs,           \* the shaped list handed to the provider
  calls,          \* the provider calls issued, each with the list it was given
  reply,          \* the provider's answer
  response_text,  \* what get_response returned
  http,           \* what the endpoint answered
  log             \* lines printed

vars == <<request, pc, heap, messages, msgs, calls, reply, response_text, http, log>>

NoReply == [raises |-> FALSE, choices |-> <<>>]

Init ==
  /\ request \in Requests
  /\ pc = "received"
  /\ heap = <<>>
  /\ messages = <<>>
  /\ msgs = <<>>
  /\ calls = <<>>
  /\ reply = NoReply
  /\ response_text = <<>>
  /\ http = NoResponse
  /\ log = <<>>

\* a body that fails validation never reaches the handler
reject ==
  /\ pc = "received"
  /\ ~ValidRequest(request)
  /\ pc' = "rejected"
  /\ http' = ValidationError
  /\ UNCHANGED <<request, heap, messages, msgs, calls, reply, response_text, log>>

\* chat up to the provider call: routes.py 25-35, service.py 125-140
chat_call ==
  /\ pc = "received"
  /\ ValidRequest(request)
  /\ LET dicts == messages_dict(request)
         caller == [i \in DOMAIN dicts |-> i]
         shaped == Shape(dicts, caller, request.context)
     IN /\ messages' = caller
        /\ heap' = shaped.heap
        /\ msgs' = shaped.ret
        /\ calls' = IssueCall(calls, shaped.ret)
  /\ log' = IF Truthy(request.user_id) THEN Append(log, "handling") ELSE log
  /\ pc' = "awaiting"
  /\ UNCHANGED <<request, reply, response_text, http>>

\* the provider answers; get_response returns and chat builds its response:
\* service.py 142-147, routes.py 37-49
provider_return ==
  /\ pc = "awaiting"
  /\ \E resp \in Responses :
       LET r == get_response_return(resp)
       IN /\ reply' = resp
          /\ response_text' = r.text
          /\ http' = ChatResult(r)
          /\ log' = IF ProviderFails(resp) THEN Append(log, "OpenAI error") ELSE log
  /\ pc' = "responded"
  /\ UNCHANGED <<request, heap, messages, msgs, calls>>

Next == reject \/ chat_call \/ provider_return

Spec == Init /\ [][Next]_vars

(***************************************************************************)
(* Vocabulary of the properties.                                           *)
(***************************************************************************)
Shaped == pc \in {"awaiting", "responded"}

\* the conversation as the caller handed it over, before any shaping
Original == messages_dict(request)

NumTurns == Len(request.messages)

Kept == IF NumTurns < MAX_TURNS THEN NumTurns ELSE MAX_TURNS

StartsWithSystem == NumTurns > 0 /\ request.messages[1].role = JStr("system")

IsPrefix(p, s) == Len(p) <= Len(s) /\ SubSeq(s, 1, Len(p)) = p

(***************************************************************************)
(* C1 (as stated): whenever the input conversation starts with a system    *)
(* message, the shaped output has that message as its second element with  *)
(* the role and content the caller gave it, whatever the conversation's    *)
(* length and the content's length.                                        *)
(***************************************************************************)
C1_AsStated ==
  (Shaped /\ StartsWithSystem) =>
     /\ Len(msgs) >= 2
     /\ msgs[2] = messages[1]
     /\ heap[msgs[2]] = Original[1]

(***************************************************************************)
(* C1 (amended): whenever the input conversation has at most MAX_TURNS     *)
(* messages and starts with a system message, the shaped output has that   *)
(* very message as its second element, with role system and with its       *)
(* content cut to the first MAX_CONTENT_CHARS characters, hence unchanged  *)
(* when the content is no longer than that.                                *)
(***************************************************************************)
C1_ClientSystemSecond ==
  (Shaped /\ StartsWithSystem /\ NumTurns <= MAX_TURNS) =>
     /\ Len(msgs) >= 2
     /\ msgs[2] = messages[1]
     /\ msgs[1] # messages[1]
     /\ heap[msgs[2]].role = "system"
     /\ IsPrefix(heap[msgs[2]].content, Original[1].content)
     /\ Len(heap[msgs[2]].content) =
          (IF Len(Original[1].content) > MAX_CONTENT_CHARS
           THEN MAX_CONTENT_CHARS ELSE Len(Original[1].content))
     /\ (Len(Original[1].content) <= MAX_CONTENT_CHARS
           => heap[msgs[2]] = Original[1])

C1_Witness ==
  /\ pc = "awaiting"
  /\ StartsWithSystem
  /\ NumTurns = MAX_TURNS
  /\ Len(Original[1].content) > MAX_CONTENT_CHARS
  /\ msgs[2] = messages[1]

(***************************************************************************)
(* C2: the shaped output of a conversation of n messages has               *)
(* min(n, MAX_TURNS) + 1 elements: the injected system message, then the   *)
(* last min(n, MAX_TURNS) messages of the input in their original order.   *)
(***************************************************************************)
C2_LastTurnsKept ==
  Shaped =>
     /\ Len(msgs) = Kept + 1
     /\ msgs[1] \notin Range(messages)
     /\ \A i \in 1..Kept :
          /\ msgs[i + 1] = messages[NumTurns - Kept + i]
          /\ heap[msgs[i + 1]].role = Original[NumTurns - Kept + i].role

C2_Witness ==
  /\ pc = "awaiting"
  /\ NumTurns > MAX_TURNS
  /\ Len(msgs) = MAX_TURNS + 1
  /\ msgs[2] = messages[NumTurns - MAX_TURNS + 1]

(***************************************************************************)
(* C3: every retained message keeps its role; its content is the first     *)
(* MAX_CONTENT_CHARS characters of the original content (length exactly    *)
(* MAX_CONTENT_CHARS) when the original is longer than that, and is the    *)
(* original content otherwise.                                             *)
(***************************************************************************)
C3_ContentClipped ==
  Shaped =>
     \A i \in 2..Len(msgs) :
        LET now == heap[msgs[i]]
            was == Original[msgs[i]]
        IN /\ now.role = was.role
           /\ IF Len(was.content) > MAX_CONTENT_CHARS
              THEN /\ Len(now.content) = MAX_CONTENT_CHARS
                   /\ now.content = SubSeq(was.content, 1, MAX_CONTENT_CHARS)
              ELSE now.content = was.content

C3_Witness ==
  /\ pc = "awaiting"
  /\ \E i \in 2..Len(msgs) :
        /\ Len(Original[msgs[i]].content) > MAX_CONTENT_CHARS + 1
        /\ Len(heap[msgs[i]].content) = MAX_CONTENT_CHARS

(***************************************************************************)
(* C4: the first message of every shaped output has role system and a      *)
(* content that begins with the tutoring prompt; for the empty             *)
(* conversation the shaped output is that one message alone.               *)
(***************************************************************************)
C4_SystemFirst ==
  Shaped =>
     /\ Len(msgs) >= 1
     /\ heap[msgs[1]].role = "system"
     /\ IsPrefix(SOCRATIC_SYSTEM, heap[msgs[1]].content)
     /\ (NumTurns = 0 => Len(msgs) = 1)

C4_Witness ==
  /\ pc = "awaiting"
  /\ NumTurns = 0
  /\ request.context.present
  /\ Len(msgs) = 1
  /\ heap[msgs[1]].role = "system"

(***************************************************************************)
(* C5: the injected content is the tutoring prompt, followed - exactly     *)
(* when some context value is truthy - by a newline, "Context: " and the   *)
(* "key: value" pairs of the truthy-valued keys, in iteration order,       *)
(* separated by ", ".                                                      *)
(***************************************************************************)
\* the suffix built entry by entry, from entry i on; first tells whether no
\* pair has been written yet
RECURSIVE C5_Pairs(_, _, _)
C5_Pairs(items, i, first) ==
  IF i > Len(items) THEN <<>>
  ELSE IF Truthy(items[i].v)
       THEN (IF first THEN <<>> ELSE <<",", " ">>)
              \o items[i].k \o <<":", " ">> \o PyStr(items[i].v)
              \o C5_Pairs(items, i + 1, FALSE)
       ELSE C5_Pairs(items, i + 1, first)

C5_SomeTruthy ==
  /\ request.context.present
  /\ \E i \in DOMAIN request.context.items : Truthy(request.context.items[i].v)

C5_ContextSuffix ==
  Shaped =>
     heap[msgs[1]].content =
        IF C5_SomeTruthy
        THEN SOCRATIC_SYSTEM \o <<"\n", "C", "o", "n", "t", "e", "x", "t", ":", " ">>
               \o C5_Pairs(request.context.items, 1, TRUE)
        ELSE SOCRATIC_SYSTEM

C5_Witness ==
  /\ pc = "awaiting"
  /\ Len(request.context.items) = 2
  /\ ~Truthy(request.context.items[1].v)
  /\ request.context.items[2].v = PyIntVal(12)
  /\ Len(heap[msgs[1]].content) > Len(SOCRATIC_SYSTEM)

(***************************************************************************)
(* C6: when the provider call fails - it raises, or its response has no    *)
(* choices - get_response returns the fallback text and the endpoint       *)
(* answers 200 with an assistant message carrying it; never a 500.         *)
(***************************************************************************)
C6_FallbackOnFailure ==
  (pc = "responded" /\ (reply.raises \/ reply.choices = <<>>)) =>
     /\ response_text = FALLBACK
     /\ http = [status |-> 200, role |-> "assistant", content |-> FALLBACK]

C6_Witness ==
  /\ pc = "responded"
  /\ reply.raises
  /\ http.status = 200
  /\ response_text = FALLBACK

(***************************************************************************)
(* C7: when the provider call succeeds, get_response returns the content   *)
(* of the first choice, or the empty text when that content is None, and   *)
(* the endpoint answers with one assistant message of that content.        *)
(***************************************************************************)
C7_FirstChoice ==
  (pc = "responded" /\ ~reply.raises /\ Len(reply.choices) > 0) =>
     /\ response_text =
          (IF reply.choices[1].t = "none" THEN <<>> ELSE reply.choices[1].s)
     /\ http = [status |-> 200, role |-> "assistant", content |-> response_text]

C7_Witness ==
  /\ pc = "responded"
  /\ Len(reply.choices) = 2
  /\ reply.choices[1] = PyStrVal(TXT_mocked_reply)
  /\ reply.choices[2] # reply.choices[1]
  /\ http.content = TXT_mocked_reply

(***************************************************************************)
(* C8: a request with a message whose role is not system, user or          *)
(* assistant is rejected by validation: it is never shaped, never          *)
(* forwarded to the provider and never answered with an assistant message. *)
(***************************************************************************)
C8_HasForeignRole ==
  \E i \in DOMAIN request.messages :
     request.messages[i].role \notin {JStr(r) : r \in Roles}

C8_ForeignRoleRejected ==
  C8_HasForeignRole =>
     /\ pc \in {"received", "rejected"}
     /\ msgs = <<>>
     /\ calls = <<>>
     /\ http.role # "assistant"

(***************************************************************************)
(* C9: a request handled by get_response causes exactly one provider call, *)
(* issued with the shaped conversation before any response exists; no      *)
(* call is issued for it before or after.                                  *)
(***************************************************************************)
C9_OneCall ==
  /\ (pc \in {"received", "rejected"} => calls = <<>>)
  /\ (pc = "awaiting" => calls = <<msgs>> /\ Len(msgs) >= 1 /\ http = NoResponse)
  /\ (pc = "responded" => calls = <<msgs>> /\ http.status # 0)

C9_Witness ==
  /\ pc = "responded"
  /\ reply.raises
  /\ Len(calls) = 1

(***************************************************************************)
(* C10: shaping leaves the caller's conversation as it was: the list has   *)
(* the same dicts in the same order and every dict has the role and the    *)
(* content the caller put in it.                                           *)
(***************************************************************************)
C10_InputUnchanged ==
  Shaped =>
     /\ Len(messages) = NumTurns
     /\ \A i \in DOMAIN messages : heap[messages[i]] = Original[i]
=============================================================================
